---- MODULE Spec2Model ----
(***************************************************************************)
(* The two disk-backed image caches of src/cpp:                            *)
(*   image_cache_plain.cpp      ("plain":     LRUCache index + files)       *)
(*   image_cache_functools.cpp  ("functools": access_order + mtime scan)    *)
(* One ImageCache object, its cache directory, and the callers that run     *)
(* get / fetch / clear on it, one source statement per step.               *)
(* And the functions under test of catch2_example.cpp, and the Elevator of  *)
(* elevator_state_machine.cpp.                                             *)
(***************************************************************************)
EXTENDS Integers, Sequences, FiniteSets, TLC

\* ------------------------------------------------------------------ bounds
MaxCapacity == 2
MaxTime == 1
CallsPerCaller == 2
MaxLen == 3
MaxInt == 2
MaxFloors == 5
MaxHour == 3
MaxBooks == 4

\* --------------------------------------------------------------- constants
U1 == "https://httpbin.org/image/jpeg"
U2 == "https://httpbin.org/image/png"
U3 == "https://httpbin.org/image/webp"
U4 == "https://httpbin.org/image/svg"
\* main(): test_urls and the capacity of its ImageCache
test_urls == <<U1, U2, U3, U4>>
DemoCapacity == 3
Urls == {test_urls[i] : i \in 1..Len(test_urls)}

Variants == {"plain", "functools"}
Main == "t1"
Other == "t2"
Threads == {"t1", "t2"}
cache_dir == ".image_cache"
Off == <<<<"off", "">>>>
Free == <<<<"free", "", FALSE>>>>
AnyCall == <<"any", "", FALSE>>
\* the handle after curl_easy_init, or with options nobody has still to read
NoOptions == <<"", "">>

\* main(): get on each of test_urls, then get on the first again
MainScript ==
    [i \in 1..Len(test_urls) + 1 |->
        <<"get", test_urls[IF i <= Len(test_urls) THEN i ELSE 1], FALSE>>]

\* misses of three identifiers, a hit on the first, a miss of a fourth
LruScript ==
    <<<<"fetch", U1, FALSE>>, <<"fetch", U2, FALSE>>, <<"fetch", U3, FALSE>>,
      <<"get", U1, FALSE>>, <<"fetch", U4, FALSE>>>>

VARIABLES
    variant,         \* which of the two source files is running
    max_size,        \* ImageCache::max_size
    now,             \* the file system clock, in seconds (time_t)
    files,           \* the cache directory: path -> last_write_time
    whole,           \* the paths whose file holds a fetched payload in full
    content,         \* the cache directory: path -> the bytes of the file
    curl,            \* the CURL handle: <<CURLOPT_URL, owner of WRITEDATA>>
    response_data,   \* per caller: the bytes WriteCallback has appended
    items,           \* LRUCache::items, front (index 1) is most recent
    cache,           \* LRUCache::cache, the keys of the map
    access_order,    \* functools: front (index 1) is oldest
    url_to_iterator, \* functools: the keys of the map
    pc,              \* per caller: the statement it is about to run
    op,              \* per caller: the public method it is in
    url,             \* per caller: the url argument
    force_refresh,   \* per caller: the force_refresh argument
    victim,          \* per caller: files[0] of evict_oldest_file, as a set
    res,             \* per caller: the CURLcode of curl_easy_perform
    response_code,   \* per caller: CURLINFO_RESPONSE_CODE
    result,          \* per caller: the value being returned
    remote,          \* per caller: curl_easy_perform ran in this call
    cachedAtCall,    \* per caller: the file existed when the call started
    removed,         \* per caller: the paths the loop of clear() removed
    entries,         \* per caller: directory entries clear() has yet to visit
    ids,             \* the identifiers the callers ask for
    todo,            \* per caller: the calls it has still to make, or Free
    log,             \* the calls completed so far, or Off
    vec,             \* catch2_example: the vector passed to find_max
    str,             \* catch2_example: the string passed to reverse_string
    returned,        \* catch2_example: <<value returned>>, <<>> before
    floors,          \* Elevator::floors
    current_floor,   \* Elevator::current_floor
    state,           \* Elevator::state
    target_floor,    \* Elevator::target_floor: <<floor>>, <<>> is nullopt
    accepted,        \* Elevator: <<what the last request_floor returned>>
    driver,          \* elevator's main(): <<where it is, the floor it asked
                     \* for, the floor the car was at, calls of move so far>>
    intervals,       \* Scheduler: the vector of <<start, end>>
    day_start,       \* Scheduler
    day_end,         \* Scheduler
    answer,          \* Scheduler: <<the last add or remove, what it returned>>
    free,            \* Scheduler: <<what the last free_slots returned>>
    books,           \* Library: data["books"] of the data file, <<id, available>>
    borrowed         \* Library: the keys of data["borrowed"] of the data file

callvars == <<pc, op, url, force_refresh, victim, res, response_code, result,
              remote, cachedAtCall, removed, entries>>
indexvars == <<items, cache, access_order, url_to_iterator>>
curlvars == <<content, curl, response_data>>
catch2 == <<vec, str, returned>>
elevator == <<floors, current_floor, state, target_floor, accepted, driver>>
scheduler == <<intervals, day_start, day_end, answer, free>>
library == <<books, borrowed>>
examples == <<catch2, elevator, scheduler, library>>
cachevars == <<variant, max_size, now, files, whole, indexvars, callvars, ids,
               todo, log, curlvars>>
vars == <<variant, max_size, now, files, whole, content, curl, response_data,
          items, cache, access_order,
          url_to_iterator, pc, op, url, force_refresh, victim, res,
          response_code, result, remote, cachedAtCall, removed, entries, ids,
          todo, log, vec, str, returned, floors, current_floor, state,
          target_floor, accepted, driver, intervals, day_start, day_end,
          answer, free, books, borrowed>>

\* ------------------------------------------------------------ key mapping
\* The leading byte of MD5(url): the digests' order is the order of the
\* hexadecimal file names.
md5_hash(input) ==
    CASE input = U1 -> 217    \* d9e12899c916d19ce7166a7f91025b87
      [] input = U2 -> 73     \* 490b0ac21fd1d39f9fa869c0d7f9c86d
      [] input = U3 -> 21     \* 1562e289945122be12d5fcc0c87faef7
      [] input = U4 -> 52     \* 346685c4743859e3bdb7d2acec5f7803

\* fs::path(url).extension(): none of the test urls has a dot in its last
\* path component.
extension(u) == ""

\* the bug of a key that depends on when it is derived
url_to_filename_at_time(u) ==
    <<md5_hash(u) + now, IF extension(u) = "" THEN ".jpg" ELSE extension(u)>>

url_to_filename(u) ==
    <<md5_hash(u), IF extension(u) = "" THEN ".jpg" ELSE extension(u)>>

get_cache_path(u) == <<cache_dir, url_to_filename(u)>>

Paths == {get_cache_path(u) : u \in Urls}

\* ------------------------------------------------------------ file system
exists(path) == path \in DOMAIN files

\* the bug of answering from the recency index
is_cached_if_indexed(u) ==
    IF variant = "plain" THEN u \in cache ELSE u \in url_to_iterator

is_cached(u) == exists(get_cache_path(u))

WriteFile(fs, path, t) ==
    [p \in DOMAIN fs \cup {path} |-> IF p = path THEN t ELSE fs[p]]

RemoveFile(fs, path) == [p \in DOMAIN fs \ {path} |-> fs[p]]

\* operator< of std::pair<std::time_t, fs::path>
PairLess(fs, p, q) ==
    \/ fs[p] < fs[q]
    \/ fs[p] = fs[q] /\ p[2][1] < q[2][1]

\* ------------------------------------------------------------- sequences
RECURSIVE Without(_, _)
\* the list without its first node holding key
Without(s, key) ==
    IF s = <<>> THEN <<>>
    ELSE IF Head(s) = key THEN Tail(s)
    ELSE <<Head(s)>> \o Without(Tail(s), key)

Range(s) == {s[i] : i \in 1..Len(s)}

\* ------------------------------------------------- LRUCache (plain index)
\* touch: splice the key's node to the front, nothing when it is absent
LRUCache_touch(its, c, key) ==
    IF key \in c THEN <<key>> \o Without(its, key) ELSE its

\* the bug of testing "items.size() > max_size" before the insertion
LRUCache_put_branch_late(its, c, key, ms) ==
    IF key \in c THEN "put_erase"
    ELSE IF Len(its) > ms THEN "put_evict"
    ELSE "put_push"

\* the bug of testing the size before looking for the key
LRUCache_put_branch_size_first(its, c, key, ms) ==
    IF Len(its) >= ms /\ its # <<>> THEN "put_evict"
    ELSE IF key \in c THEN "put_erase"
    ELSE "put_push"

\* put, the branch taken: erase the key's own node, evict the back, or none
LRUCache_put_branch(its, c, key, ms) ==
    IF key \in c THEN "put_erase"
    ELSE IF Len(its) >= ms THEN "put_evict"
    ELSE "put_push"

pop_back(its) == SubSeq(its, 1, Len(its) - 1)

push_front(its, key) == <<key>> \o its

\* the bug of clearing the map and leaving the list
LRUCache_clear_map_only(its) == its

LRUCache_clear(its) == <<>>

\* ------------------------------------------ functools: recency and scan
\* touch_url: erase the url's node when tracked, then push_back
touch_url(ao, map, u) ==
    (IF u \in map THEN Without(ao, u) ELSE ao) \o <<u>>

\* the bug of erasing the url from the map and leaving its node
untrack_map_only(ao, map, u) == ao

\* fetch(url, true): "Clear from access tracking"
untrack(ao, map, u) == IF u \in map THEN Without(ao, u) ELSE ao

\* the bug of evicting as soon as the directory holds max_size files
evict_oldest_file_when_full(fs, ms) ==
    IF Cardinality(DOMAIN fs) >= ms
    THEN {p \in DOMAIN fs : \A q \in DOMAIN fs \ {p} : PairLess(fs, p, q)}
    ELSE {}

\* evict_oldest_file: files[0] after the sort when there are more than
\* max_size regular files, as a set of at most one path
evict_oldest_file(fs, ms) ==
    IF Cardinality(DOMAIN fs) > ms
    THEN {p \in DOMAIN fs : \A q \in DOMAIN fs \ {p} : PairLess(fs, p, q)}
    ELSE {}

\* ------------------------------------------- catch2_example: find_max
RECURSIVE max_element(_, _, _)
\* std::max_element over [first, last): largest moves to first whenever
\* *largest < *first, so it ends on the first of the greatest elements
max_element(v, first, largest) ==
    IF first > Len(v) THEN largest
    ELSE max_element(v, first + 1,
                     IF v[largest] < v[first] THEN first ELSE largest)

\* the bug of starting the search from 0 instead of from the first element
find_max_from_zero(v) ==
    IF v = <<>> THEN 0
    ELSE IF v[max_element(v, 2, 1)] < 0 THEN 0 ELSE v[max_element(v, 2, 1)]

find_max(v) == IF v = <<>> THEN 0 ELSE v[max_element(v, 2, 1)]

\* the vectors of at most MaxLen ints of magnitude at most MaxInt
Vectors == UNION {[1..n -> -MaxInt..MaxInt] : n \in 0..MaxLen}

\* ------------------------------------- catch2_example: reverse_string
\* the bug of returning the characters in their own order
reverse_string_unchanged(s) == s

RECURSIVE reverse_string(_)
\* std::string(str.rbegin(), str.rend()): the characters from the last one
\* to the first
reverse_string(s) ==
    IF s = <<>> THEN <<>>
    ELSE <<s[Len(s)]>> \o reverse_string(SubSeq(s, 1, Len(s) - 1))

\* characters of the strings of the tests
Chars == {"a", "1", "2", "3"}

\* the strings of at most MaxLen characters
Strings == UNION {[1..n -> Chars] : n \in 0..MaxLen}

\* ------------------------------------------------------- the public API
\* the bug of testing fs::exists alone
fetch_ignores_force(force, ex) == ex

\* the bug of testing the CURLcode alone
fetch_succeeded_any_status(r, c) == r = "CURLE_OK"

\* fetch_impl: "if (res == CURLE_OK)" and "if (response_code == 200)"
fetch_succeeded(r, c) == r = "CURLE_OK" /\ c = 200

\* fetch (plain): "if (!force_refresh && fs::exists(cache_path))"
fetch_uses_cache(force, ex) == ~force /\ ex

\* the call's entry in the log of completed calls
LogAfter(t) ==
    IF log = Off THEN Off
    ELSE IF op[t] = "clear" THEN Append(log, <<"clear", "">>)
    ELSE Append(log, <<IF result[t] # "path" THEN "error"
                       ELSE IF remote[t] THEN "miss" ELSE "hit", url[t]>>)

Idle == [t \in Threads |-> "idle"]

InitCalls ==
    /\ pc = Idle
    /\ op = [t \in Threads |-> "none"]
    /\ url = [t \in Threads |-> ""]
    /\ force_refresh = [t \in Threads |-> FALSE]
    /\ victim = [t \in Threads |-> {}]
    /\ res = [t \in Threads |-> "none"]
    /\ response_code = [t \in Threads |-> 0]
    /\ result = [t \in Threads |-> "none"]
    /\ remote = [t \in Threads |-> FALSE]
    /\ cachedAtCall = [t \in Threads |-> FALSE]
    /\ removed = [t \in Threads |-> {}]
    /\ entries = [t \in Threads |-> {}]
    /\ response_data = [t \in Threads |-> <<>>]

\* no test of catch2_example is running
NoCatch2 ==
    /\ vec = <<>>
    /\ str = <<>>
    /\ returned = <<>>

\* the caller of the Elevator: any call at any time, move counted nowhere
NoLoop == <<"off", 0, 0, 0>>

\* main() outside its loops: about to call request_floor or close_doors
Outside == <<"free", 0, 0, 0>>

\* no Elevator exists
NoElevator ==
    /\ floors = 0
    /\ current_floor = 0
    /\ state = "none"
    /\ target_floor = <<>>
    /\ accepted = <<>>
    /\ driver = NoLoop

\* neither catch2_example nor the elevator is running
\* no Scheduler exists
NoScheduler ==
    /\ intervals = <<>>
    /\ day_start = 0
    /\ day_end = 0
    /\ answer = <<>>
    /\ free = <<>>

\* the Library has no data file: load_data() gives no books and no borrowers
NoLibrary ==
    /\ books = <<>>
    /\ borrowed = {}

NoExample == NoCatch2 /\ NoElevator /\ NoScheduler /\ NoLibrary

\* ImageCache cache(".image_cache", max_size) over an empty directory
InitCache ==
    /\ variant \in Variants
    /\ now = 0
    /\ files = [p \in {} |-> 0]
    /\ whole = {}
    /\ content = [p \in {} |-> <<>>]
    /\ curl = NoOptions
    /\ items = <<>>
    /\ cache = {}
    /\ access_order = <<>>
    /\ url_to_iterator = {}
    /\ InitCalls
    /\ NoExample

\* any calls, on a few identifiers
Init ==
    /\ InitCache
    /\ max_size \in 1..MaxCapacity
    /\ ids = {U1, U2, U3}
    /\ todo = [t \in Threads |-> IF t = Main THEN Free ELSE <<>>]
    /\ log = Off

\* any calls on an ImageCache of any max_size, 0 included
InitAnySize ==
    /\ InitCache
    /\ max_size \in 0..MaxCapacity
    /\ ids = {U1, U2}
    /\ todo = [t \in Threads |-> IF t = Main THEN Free ELSE <<>>]
    /\ log = Off

\* the calls of main(), or of the LRU scenario, in their order
InitScript ==
    /\ InitCache
    /\ max_size \in 1..DemoCapacity
    /\ ids = Urls
    /\ \E script \in {MainScript, LruScript} :
        todo = [t \in Threads |-> IF t = Main THEN script ELSE <<>>]
    /\ log = <<>>

\* two callers, each making a few calls of its choice
InitConc ==
    /\ InitCache
    /\ max_size \in 1..MaxCapacity
    /\ ids = {U1, U2}
    /\ todo = [t \in Threads |->
                  [i \in 1..(IF t = Main THEN CallsPerCaller ELSE 1) |->
                      AnyCall]]
    /\ log = Off

\* one caller runs get and fetch while the other runs clear
InitClear ==
    /\ InitCache
    /\ max_size \in 1..MaxCapacity
    /\ ids = {U1, U2}
    /\ todo = [t \in Threads |->
                  [i \in 1..(IF t = Main THEN CallsPerCaller + 1 ELSE 1) |->
                      AnyCall]]
    /\ log = <<>>

\* no ImageCache is running
NoCache ==
    /\ variant = "none"
    /\ max_size = 0
    /\ now = 0
    /\ files = [p \in {} |-> 0]
    /\ whole = {}
    /\ content = [p \in {} |-> <<>>]
    /\ curl = NoOptions
    /\ items = <<>>
    /\ cache = {}
    /\ access_order = <<>>
    /\ url_to_iterator = {}
    /\ InitCalls
    /\ ids = {}
    /\ todo = [t \in Threads |-> <<>>]
    /\ log = Off

\* a test is about to call find_max on some vector
InitMax ==
    /\ NoCache
    /\ NoElevator
    /\ NoScheduler
    /\ NoLibrary
    /\ vec \in Vectors
    /\ str = <<>>
    /\ returned = <<>>

\* a test is about to call reverse_string on some string
InitReverse ==
    /\ NoCache
    /\ NoElevator
    /\ NoScheduler
    /\ NoLibrary
    /\ vec = <<>>
    /\ str \in Strings
    /\ returned = <<>>

\* the caller may start this call now
MayCall(t, o, u, f) ==
    \/ todo[t] = Free /\ u \in ids
    \/ /\ todo[t] # Free
       /\ todo[t] # <<>>
       /\ \/ Head(todo[t]) = AnyCall /\ u \in ids
          \/ Head(todo[t]) = <<o, u, f>>

Called(t) ==
    todo' = IF todo[t] = Free THEN todo ELSE [todo EXCEPT ![t] = Tail(todo[t])]

\* the arguments and the bookkeeping of a call that starts
Enter(t, o, u, f) ==
    /\ op' = [op EXCEPT ![t] = o]
    /\ url' = [url EXCEPT ![t] = u]
    /\ force_refresh' = [force_refresh EXCEPT ![t] = f]
    /\ cachedAtCall' = [cachedAtCall EXCEPT ![t] = is_cached(u)]
    /\ UNCHANGED <<victim, res, response_code, result, remote, removed,
                   entries>>

Goto(t, l) == pc' = [pc EXCEPT ![t] = l]

\* is_cached(url): return fs::exists(get_cache_path(url))
IsCached(t) ==
    /\ pc[t] = "idle"
    /\ \E u \in Urls :
        /\ MayCall(t, "is_cached", u, FALSE)
        /\ op' = [op EXCEPT ![t] = "is_cached"]
        /\ url' = [url EXCEPT ![t] = u]
        /\ result' = [result EXCEPT ![t] = IF is_cached(u) THEN "true"
                                           ELSE "false"]
    /\ Called(t)
    /\ Goto(t, "ret")
    /\ UNCHANGED <<variant, max_size, now, files, whole, indexvars, ids, log,
                   force_refresh, victim, res, response_code, remote,
                   cachedAtCall, removed, entries, examples, curlvars>>

\* get(url): plain tests fs::exists itself, functools calls get_impl
Get(t) ==
    /\ pc[t] = "idle"
    /\ \E u \in Urls :
        /\ MayCall(t, "get", u, FALSE)
        /\ Enter(t, "get", u, FALSE)
        /\ Goto(t, IF exists(get_cache_path(u)) THEN "touch"
                   ELSE IF variant = "plain" THEN "fetch" ELSE "evict")
    /\ Called(t)
    /\ UNCHANGED <<variant, max_size, now, files, whole, indexvars, ids, log,
                   examples, curlvars>>

\* fetch(url, force_refresh)
Fetch(t) ==
    /\ pc[t] = "idle"
    /\ \E u \in Urls, f \in BOOLEAN :
        /\ MayCall(t, "fetch", u, f)
        /\ Enter(t, "fetch", u, f)
        /\ IF variant = "plain"
           THEN /\ Goto(t, IF fetch_uses_cache(f, exists(get_cache_path(u)))
                           THEN "touch" ELSE "evict")
                /\ UNCHANGED <<access_order, url_to_iterator>>
           ELSE IF f
           THEN /\ access_order' = untrack(access_order, url_to_iterator, u)
                /\ url_to_iterator' = url_to_iterator \ {u}
                /\ Goto(t, "evict")
           ELSE /\ Goto(t, IF exists(get_cache_path(u)) THEN "touch"
                           ELSE "evict")
                /\ UNCHANGED <<access_order, url_to_iterator>>
    /\ Called(t)
    /\ UNCHANGED <<variant, max_size, now, files, whole, items, cache, ids,
                   log, examples, curlvars>>

\* plain get(url) -> fetch(url): the second fs::exists test
InnerFetch(t) ==
    /\ pc[t] = "fetch"
    /\ Goto(t, IF fetch_uses_cache(force_refresh[t],
                                   exists(get_cache_path(url[t])))
               THEN "touch" ELSE "evict")
    /\ UNCHANGED <<variant, max_size, now, files, whole, indexvars, log, ids,
                   todo, op, url, force_refresh, victim, res, response_code,
                   result, remote, cachedAtCall, removed, entries, examples,
                   curlvars>>

\* the hit path (lru_cache.touch / touch_url) and, in functools, the
\* touch_url after the file was written; then return cache_path
Touch(t) ==
    /\ pc[t] = "touch"
    /\ IF variant = "plain"
       THEN /\ items' = LRUCache_touch(items, cache, url[t])
            /\ UNCHANGED <<cache, access_order, url_to_iterator>>
       ELSE /\ access_order' = touch_url(access_order, url_to_iterator, url[t])
            /\ url_to_iterator' = url_to_iterator \cup {url[t]}
            /\ UNCHANGED <<items, cache>>
    /\ result' = [result EXCEPT ![t] = "path"]
    /\ Goto(t, "ret")
    /\ UNCHANGED <<variant, max_size, now, files, whole, log, ids, todo, op,
                   url, force_refresh, victim, res, response_code, remote,
                   cachedAtCall, removed, entries, examples, curlvars>>

\* the directory's bytes after the file at path p is written with bytes b
Stored(c, p, b) == [q \in DOMAIN c \cup {p} |-> IF q = p THEN b ELSE c[q]]

\* the directory's bytes, of the files that are left
Kept(c, paths) == [q \in DOMAIN c \cap paths |-> c[q]]

\* what the server sends for a URL: the image of that URL with status 200,
\* an error page otherwise
body(u, c) == IF c = 200 THEN u ELSE "error page"

\* the callers' response_data strings, each kept from its declaration to the
\* file.write that reads it: its bytes are read nowhere else
Unread(rd, at) ==
    [o \in Threads |-> IF at[o] \in {"perform", "open", "write"} THEN rd[o]
                       ELSE <<>>]

\* caller o is inside fetch_impl, past the declaration of its response_data
in_fetch_impl(o) ==
    /\ o \in Threads
    /\ \/ pc[o] \in {"perform", "open", "write", "put", "put_erase",
                      "put_evict", "put_push"}
       \/ pc[o] \in {"touch", "ret"} /\ remote[o]

\* fetch_impl: evict_lru() (plain, an empty body) or the directory scan of
\* evict_oldest_file() (functools)
Evict(t) ==
    /\ pc[t] = "evict"
    /\ IF variant = "plain"
       THEN /\ Goto(t, "setopt")
            /\ UNCHANGED victim
       ELSE LET v == evict_oldest_file(files, max_size) IN
            /\ victim' = [victim EXCEPT ![t] = v]
            /\ Goto(t, IF v = {} THEN "setopt" ELSE "remove")
    /\ UNCHANGED <<variant, max_size, now, files, whole, indexvars, log, ids,
                   todo, op, url, force_refresh, res, response_code, result,
                   remote, cachedAtCall, removed, entries, examples,
                   curlvars>>

\* evict_oldest_file: fs::remove(files[0].second)
EvictRemove(t) ==
    /\ pc[t] = "remove"
    /\ files' = IF \E p \in victim[t] : exists(p)
                THEN RemoveFile(files, CHOOSE p \in victim[t] : TRUE)
                ELSE files
    /\ whole' = whole \ victim[t]
    /\ content' = Kept(content, DOMAIN files')
    /\ Goto(t, "setopt")
    /\ UNCHANGED <<variant, max_size, now, indexvars, log, ids, todo, op, url,
                   force_refresh, victim, res, response_code, result, remote,
                   cachedAtCall, removed, entries, examples, curl,
                   response_data>>

\* fetch_impl: std::string response_data and the curl_easy_setopt calls on
\* the cache's one handle: CURLOPT_URL, and CURLOPT_WRITEDATA pointing at
\* this call's response_data
Setopt(t) ==
    /\ pc[t] = "setopt"
    /\ curl' = <<url[t], t>>
    /\ Goto(t, "perform")
    /\ UNCHANGED <<variant, max_size, now, files, whole, indexvars, log, ids,
                   todo, op, url, force_refresh, victim, res, response_code,
                   result, remote, cachedAtCall, removed, entries, examples,
                   content, response_data>>

\* curl_easy_perform and the two tests of its outcome: the transfer is of
\* the handle's URL and WriteCallback appends the body to the string the
\* handle's WRITEDATA points at; a string whose fetch_impl has returned is a
\* dangling pointer
Perform(t) ==
    /\ pc[t] = "perform"
    /\ IF ~in_fetch_impl(curl[2])
       THEN /\ Goto(t, "undefined")
            /\ response_data' = Unread(response_data, pc')
            /\ UNCHANGED <<res, response_code, result, remote>>
       ELSE \E r \in {"CURLE_OK", "CURLE_OPERATION_TIMEDOUT"}, c \in {200, 404} :
            /\ r # "CURLE_OK" => c = 404
            /\ res' = [res EXCEPT ![t] = r]
            /\ response_code' =
                   [response_code EXCEPT ![t] = IF r = "CURLE_OK" THEN c ELSE 0]
            /\ IF fetch_succeeded(r, c)
               THEN Goto(t, "open") /\ UNCHANGED result
               ELSE Goto(t, "ret") /\ result' = [result EXCEPT ![t] = "nullopt"]
            /\ remote' = [remote EXCEPT ![t] = TRUE]
            /\ response_data' =
                   Unread(IF r = "CURLE_OK"
                          THEN [response_data EXCEPT
                                   ![curl[2]] = Append(@, body(curl[1], c))]
                          ELSE response_data, pc')
    /\ curl' = IF \E o \in Threads \ {t} : pc[o] = "perform" THEN curl
               ELSE NoOptions
    /\ UNCHANGED <<variant, max_size, now, files, whole, indexvars, log, ids,
                   todo, op, url, force_refresh, victim, cachedAtCall,
                   removed, entries, examples, content>>

\* std::ofstream file(cache_path, std::ios::binary): the file is created,
\* or truncated to no bytes, or the stream fails to open and the write and
\* the close that follow do nothing
OpenFile(t) ==
    /\ pc[t] = "open"
    /\ \E opened \in BOOLEAN :
        /\ files' = IF opened THEN WriteFile(files, get_cache_path(url[t]), now)
                    ELSE files
        /\ whole' = IF opened THEN whole \ {get_cache_path(url[t])} ELSE whole
        /\ content' = IF opened
                      THEN Stored(content, get_cache_path(url[t]), <<>>)
                      ELSE content
        /\ log' = IF opened \/ log = Off THEN log
                  ELSE Append(log, <<"unwritten", url[t]>>)
        /\ Goto(t, IF opened THEN "write"
                   ELSE IF variant = "plain" THEN "put" ELSE "touch")
    /\ UNCHANGED <<variant, max_size, now, indexvars, ids, todo, op, url,
                   force_refresh, victim, res, response_code, result, remote,
                   cachedAtCall, removed, entries, examples, curl>>
    /\ response_data' = Unread(response_data, pc')

\* file.write(response_data.c_str(), response_data.size()); file.close():
\* the bytes reach the file, when it is still in the directory
Write(t) ==
    /\ pc[t] = "write"
    /\ IF exists(get_cache_path(url[t]))
       THEN /\ files' = WriteFile(files, get_cache_path(url[t]), now)
            /\ whole' = whole \cup {get_cache_path(url[t])}
            /\ content' = Stored(content, get_cache_path(url[t]),
                                 response_data[t])
       ELSE UNCHANGED <<files, whole, content>>
    /\ Goto(t, IF variant = "plain" THEN "put" ELSE "touch")
    /\ response_data' = Unread(response_data, pc')
    /\ UNCHANGED <<variant, max_size, now, indexvars, log, ids, todo, op, url,
                   force_refresh, victim, res, response_code, result, remote,
                   cachedAtCall, removed, entries, examples, curl>>

\* LRUCache::put: the find and the test of the size
Put(t) ==
    /\ pc[t] = "put"
    /\ Goto(t, LRUCache_put_branch(items, cache, url[t], max_size))
    /\ UNCHANGED <<variant, max_size, now, files, whole, indexvars, log, ids,
                   todo, op, url, force_refresh, victim, res, response_code,
                   result, remote, cachedAtCall, removed, entries, examples,
                   curlvars>>

\* LRUCache::put: items.erase(it->second); cache.erase(it)
PutErase(t) ==
    /\ pc[t] = "put_erase"
    /\ items' = Without(items, url[t])
    /\ cache' = cache \ {url[t]}
    /\ Goto(t, "put_push")
    /\ UNCHANGED <<variant, max_size, now, files, whole, access_order,
                   url_to_iterator, log, ids, todo, op, url, force_refresh,
                   victim, res, response_code, result, remote, cachedAtCall,
                   removed, entries, examples, curlvars>>

\* LRUCache::put: cache.erase(items.back().first); items.pop_back();
\* back() of an empty list is undefined: the caller is lost
PutEvict(t) ==
    /\ pc[t] = "put_evict"
    /\ IF items = <<>>
       THEN Goto(t, "undefined") /\ UNCHANGED <<items, cache>>
       ELSE /\ cache' = cache \ {items[Len(items)]}
            /\ items' = pop_back(items)
            /\ Goto(t, "put_push")
    /\ UNCHANGED <<variant, max_size, now, files, whole, access_order,
                   url_to_iterator, log, ids, todo, op, url, force_refresh,
                   victim, res, response_code, result, remote, cachedAtCall,
                   removed, entries, examples, curlvars>>

\* LRUCache::put: items.push_front; cache[key] = items.begin(); then
\* fetch_impl returns cache_path
PutPush(t) ==
    /\ pc[t] = "put_push"
    /\ items' = push_front(items, url[t])
    /\ cache' = cache \cup {url[t]}
    /\ result' = [result EXCEPT ![t] = "path"]
    /\ Goto(t, "ret")
    /\ UNCHANGED <<variant, max_size, now, files, whole, access_order,
                   url_to_iterator, log, ids, todo, op, url, force_refresh,
                   victim, res, response_code, remote, cachedAtCall, removed,
                   entries, examples, curlvars>>

\* clear(): fs::directory_iterator(cache_dir) is constructed
Clear(t) ==
    /\ pc[t] = "idle"
    /\ \E u \in ids : MayCall(t, "clear", u, FALSE)
    /\ Called(t)
    /\ op' = [op EXCEPT ![t] = "clear"]
    /\ entries' = [entries EXCEPT ![t] = DOMAIN files]
    /\ Goto(t, "clear_loop")
    /\ UNCHANGED <<variant, max_size, now, files, whole, indexvars, log, ids,
                   url, force_refresh, victim, res, response_code, result,
                   remote, cachedAtCall, removed, examples, curlvars>>

\* clear(): one turn of the loop, fs::remove(entry.path()); a file created
\* after the iterator was constructed may be reported or not
ClearRemove(t) ==
    /\ pc[t] = "clear_loop"
    /\ entries[t] # {}
    /\ \E p \in entries[t] \cup DOMAIN files :
        /\ files' = IF exists(p) THEN RemoveFile(files, p) ELSE files
        /\ whole' = whole \ {p}
        /\ content' = Kept(content, DOMAIN files')
        /\ removed' = [removed EXCEPT ![t] = IF exists(p) THEN @ \cup {p}
                                             ELSE @]
        /\ entries' = [entries EXCEPT ![t] = @ \ {p}]
    /\ UNCHANGED <<variant, max_size, now, indexvars, log, ids, todo, pc, op,
                   url, force_refresh, victim, res, response_code, result,
                   remote, cachedAtCall, examples, curl, response_data>>

\* clear(): after the loop, lru_cache.clear() / access_order.clear();
\* url_to_iterator.clear()
ClearIndex(t) ==
    /\ pc[t] = "clear_loop"
    /\ entries[t] = {}
    /\ IF variant = "plain"
       THEN /\ items' = LRUCache_clear(items)
            /\ cache' = {}
            /\ UNCHANGED <<access_order, url_to_iterator>>
       ELSE /\ access_order' = <<>>
            /\ url_to_iterator' = {}
            /\ UNCHANGED <<items, cache>>
    /\ Goto(t, "ret")
    /\ UNCHANGED <<variant, max_size, now, files, whole, log, ids, todo, op,
                   url, force_refresh, victim, res, response_code, result,
                   remote, cachedAtCall, removed, entries, examples,
                   curlvars>>

\* the call returns to its caller
Return(t) ==
    /\ pc[t] = "ret"
    /\ log' = LogAfter(t)
    /\ Goto(t, "idle")
    /\ op' = [op EXCEPT ![t] = "none"]
    /\ url' = [url EXCEPT ![t] = ""]
    /\ force_refresh' = [force_refresh EXCEPT ![t] = FALSE]
    /\ victim' = [victim EXCEPT ![t] = {}]
    /\ res' = [res EXCEPT ![t] = "none"]
    /\ response_code' = [response_code EXCEPT ![t] = 0]
    /\ result' = [result EXCEPT ![t] = "none"]
    /\ remote' = [remote EXCEPT ![t] = FALSE]
    /\ cachedAtCall' = [cachedAtCall EXCEPT ![t] = FALSE]
    /\ removed' = [removed EXCEPT ![t] = {}]
    /\ response_data' = [response_data EXCEPT ![t] = <<>>]
    /\ UNCHANGED <<variant, max_size, now, files, whole, indexvars, ids, todo,
                   entries, examples, content, curl>>

\* a second of wall-clock time passes
Tick ==
    /\ now < MaxTime
    /\ now' = now + 1
    /\ UNCHANGED <<variant, max_size, files, whole, indexvars, callvars, log,
                   ids, todo, examples, curlvars>>

\* the process ends and a new ImageCache is constructed over the same
\* directory: the index starts empty, the files stay
Construct ==
    /\ pc = Idle
    /\ log = Off
    /\ items' = <<>>
    /\ cache' = {}
    /\ access_order' = <<>>
    /\ url_to_iterator' = {}
    /\ UNCHANGED <<variant, max_size, now, files, whole, callvars, ids, todo,
                   log, examples, curlvars>>

\* a step of a get or a fetch
LookupStep(t) ==
    \/ Get(t) \/ Fetch(t) \/ InnerFetch(t) \/ Touch(t) \/ Evict(t)
    \/ EvictRemove(t) \/ Setopt(t) \/ Perform(t) \/ OpenFile(t) \/ Write(t) \/ Put(t)
    \/ PutErase(t) \/ PutEvict(t) \/ PutPush(t) \/ Return(t)

\* one caller at a time, as in main()
Next ==
    \/ LookupStep(Main)
    \/ IsCached(Main)
    \/ Clear(Main) \/ ClearRemove(Main) \/ ClearIndex(Main)
    \/ Tick \/ Construct

Spec == Init /\ [][Next]_vars

SpecAnySize == InitAnySize /\ [][Next]_vars

\* main() and the LRU scenario: scripted calls from an empty directory
NextScript == LookupStep(Main) \/ Tick

SpecScript == InitScript /\ [][NextScript]_vars

\* two callers run get and fetch on one ImageCache at the same time
NextConc == (\E t \in Threads : LookupStep(t)) \/ Tick

SpecConc == InitConc /\ [][NextConc]_vars

\* clear() on one caller while the other is inside get or fetch
NextClear ==
    \/ LookupStep(Main)
    \/ Clear(Other) \/ ClearRemove(Other) \/ ClearIndex(Other)
    \/ Return(Other)
    \/ Tick

SpecClear == InitClear /\ [][NextClear]_vars

\* int find_max(const std::vector<int>& vec), called once
FindMax ==
    /\ returned = <<>>
    /\ returned' = <<find_max(vec)>>
    /\ UNCHANGED <<vec, str, elevator, scheduler, library, cachevars>>

NextMax == FindMax

SpecMax == InitMax /\ [][NextMax]_vars

\* std::string reverse_string(const std::string& str), called once
ReverseString ==
    /\ returned = <<>>
    /\ returned' = <<reverse_string(str)>>
    /\ UNCHANGED <<vec, str, elevator, scheduler, library, cachevars>>

NextReverse == ReverseString

SpecReverse == InitReverse /\ [][NextReverse]_vars

\* ---- elevator_state_machine.cpp ----

\* the integers a caller passes to request_floor: below, inside and above
\* the shaft
Requests == (0 - 2)..(MaxFloors + 2)

\* Elevator elevator(floors), floors >= 1
InitElevator ==
    /\ NoCache
    /\ NoCatch2
    /\ NoScheduler
    /\ NoLibrary
    /\ floors \in 1..MaxFloors
    /\ current_floor = 1
    /\ state = "IDLE"
    /\ target_floor = <<>>
    /\ accepted = <<>>
    /\ driver = NoLoop

\* Elevator elevator(floors), driven as main() drives it: after an accepted
\* request, while (elevator.get_state() != State::DOORS_OPEN) elevator.move()
InitDemo ==
    /\ NoCache
    /\ NoCatch2
    /\ NoScheduler
    /\ NoLibrary
    /\ floors \in 1..MaxFloors
    /\ current_floor = 1
    /\ state = "IDLE"
    /\ target_floor = <<>>
    /\ accepted = <<>>
    /\ driver = Outside

\* the test that never finds the car at its target
at_target_never(floor, target) == FALSE

\* move: current_floor == *target_floor
at_target(floor, target) == floor = target

\* the test without its lower limit
out_of_range_above(floor, n) == floor > n

\* request_floor: floor < 1 || floor > floors
out_of_range(floor, n) == floor < 1 \/ floor > n

\* the choice with the equal floor taken for a floor above
heading_up_when_equal(floor, current) ==
    IF floor >= current THEN "MOVING_UP" ELSE "MOVING_DOWN"

\* request_floor: the state chosen for an accepted floor
heading(floor, current) ==
    IF floor > current THEN "MOVING_UP"
    ELSE IF floor < current THEN "MOVING_DOWN"
    ELSE "DOORS_OPEN"

\* bool Elevator::request_floor(int floor)
RequestFloor(floor) ==
    /\ state # "none"
    /\ driver[1] # "loop"
    /\ IF out_of_range(floor, floors)
       THEN /\ accepted' = <<FALSE>>
            /\ UNCHANGED <<current_floor, state, target_floor>>
       ELSE IF state = "DOORS_OPEN" /\ floor = current_floor
       THEN /\ accepted' = <<TRUE>>
            /\ UNCHANGED <<current_floor, state, target_floor>>
       ELSE /\ target_floor' = <<floor>>
            /\ state' = heading(floor, current_floor)
            /\ accepted' = <<TRUE>>
            /\ UNCHANGED current_floor
    /\ \/ driver' = driver
       \/ /\ driver = Outside
          /\ accepted' = <<TRUE>>
          /\ driver' = <<"loop", floor, current_floor, 0>>
    /\ UNCHANGED <<floors, catch2, scheduler, library, cachevars>>

\* void Elevator::move()
Move ==
    /\ state # "none"
    /\ driver[1] = "loop" => state # "DOORS_OPEN"
    /\ driver' = IF driver[1] = "loop" THEN [driver EXCEPT ![4] = @ + 1]
                 ELSE driver
    /\ IF /\ state = "MOVING_UP"
          /\ target_floor # <<>>
          /\ current_floor < target_floor[1]
       THEN /\ current_floor' = current_floor + 1
            /\ IF at_target(current_floor + 1, target_floor[1])
               THEN state' = "DOORS_OPEN" /\ target_floor' = <<>>
               ELSE UNCHANGED <<state, target_floor>>
       ELSE IF /\ state = "MOVING_DOWN"
               /\ target_floor # <<>>
               /\ current_floor > target_floor[1]
       THEN /\ current_floor' = current_floor - 1
            /\ IF at_target(current_floor - 1, target_floor[1])
               THEN state' = "DOORS_OPEN" /\ target_floor' = <<>>
               ELSE UNCHANGED <<state, target_floor>>
       ELSE UNCHANGED <<current_floor, state, target_floor>>
    /\ UNCHANGED <<floors, accepted, catch2, scheduler, library, cachevars>>

\* void Elevator::close_doors()
CloseDoors ==
    /\ state # "none"
    /\ driver[1] # "loop"
    /\ state' = IF state = "DOORS_OPEN" THEN "IDLE" ELSE state
    /\ UNCHANGED <<floors, current_floor, target_floor, accepted, driver,
                   catch2, scheduler, library, cachevars>>

\* main(): the while loop ends when get_state() is DOORS_OPEN
LoopEnds ==
    /\ driver[1] = "loop"
    /\ state = "DOORS_OPEN"
    /\ driver' = Outside
    /\ UNCHANGED <<floors, current_floor, state, target_floor, accepted,
                   catch2, scheduler, library, cachevars>>

\* any sequence of calls on one Elevator
NextElevator == (\E floor \in Requests : RequestFloor(floor)) \/ Move \/ CloseDoors

SpecElevator == InitElevator /\ [][NextElevator]_vars

\* calls in any order, and after an accepted request the loop of main(),
\* which calls move again as long as the state is not DOORS_OPEN
NextDemo ==
    \/ \E floor \in Requests : RequestFloor(floor)
    \/ Move \/ CloseDoors \/ LoopEnds

SpecDemo ==
    InitDemo /\ [][NextDemo]_vars /\ WF_vars(driver[1] = "loop" /\ Move)

\* ---- scheduler.cpp ----

\* the hours a caller passes to add and remove, and a Scheduler's day
Hours == 0..MaxHour

\* Scheduler scheduler(day_start, day_end) with a day of some length
InitScheduler ==
    /\ NoCache
    /\ NoCatch2
    /\ NoElevator
    /\ NoLibrary
    /\ intervals = <<>>
    /\ day_start \in Hours
    /\ day_end \in Hours
    /\ day_start < day_end
    /\ answer = <<>>
    /\ free = <<>>

\* the test that finds only an interval lying inside the other
overlaps_when_inside(a, b) == a[1] >= b[1] /\ a[2] <= b[2]

\* Interval::overlaps
overlaps(a, b) == a[1] < b[2] /\ a[2] > b[1]

\* std::sort with the comparison a.start < b.start
sort_by_start(v) == SortSeq(v, LAMBDA a, b : a[1] < b[1])

\* bool Scheduler::add(int start, int end)
Add(start, end) ==
    /\ IF start >= end
       THEN answer' = <<"add", FALSE>> /\ UNCHANGED intervals
       ELSE IF \E i \in 1..Len(intervals) :
                   overlaps(<<start, end>>, intervals[i])
       THEN answer' = <<"add", FALSE>> /\ UNCHANGED intervals
       ELSE /\ intervals' = sort_by_start(Append(intervals, <<start, end>>))
            /\ answer' = <<"add", TRUE>>
    /\ UNCHANGED <<day_start, day_end, free, catch2, elevator, library,
                   cachevars>>

\* bool Scheduler::remove(int start, int end): the first equal interval
Remove(start, end) ==
    /\ IF \E i \in 1..Len(intervals) : intervals[i] = <<start, end>>
       THEN LET i == CHOOSE i \in 1..Len(intervals) :
                         /\ intervals[i] = <<start, end>>
                         /\ \A j \in 1..(i - 1) : intervals[j] # <<start, end>>
            IN /\ intervals' = SubSeq(intervals, 1, i - 1) \o
                                   SubSeq(intervals, i + 1, Len(intervals))
               /\ answer' = <<"remove", TRUE>>
       ELSE answer' = <<"remove", FALSE>> /\ UNCHANGED intervals
    /\ UNCHANGED <<day_start, day_end, free, catch2, elevator, library,
                   cachevars>>

\* free_slots: the loop over sorted_intervals from position i on, with the
\* loop's `current` and the slots pushed so far, and the test after the loop
RECURSIVE scan(_, _, _, _, _, _)
scan(v, i, current, slots, last, min_duration) ==
    IF i > Len(v)
    THEN IF current < last /\ last - current >= min_duration
         THEN Append(slots, <<current, last>>)
         ELSE slots
    ELSE scan(v, i + 1,
              IF current >= v[i][2] THEN current ELSE v[i][2],
              IF current < v[i][1] /\ v[i][1] - current >= min_duration
              THEN Append(slots, <<current, v[i][1]>>)
              ELSE slots,
              last, min_duration)

\* std::vector<Interval> Scheduler::free_slots(int min_duration)
free_slots(v, first, last, min_duration) ==
    scan(sort_by_start(v), 1, first, <<>>, last, min_duration)

FreeSlots(min_duration) ==
    /\ free' = <<free_slots(intervals, day_start, day_end, min_duration)>>
    /\ UNCHANGED <<intervals, day_start, day_end, answer, catch2, elevator,
                   library, cachevars>>

\* any sequence of calls on one Scheduler
NextScheduler ==
    \/ \E start \in Hours, end \in Hours : Add(start, end)
    \/ \E start \in Hours, end \in Hours : Remove(start, end)
    \/ \E min_duration \in 1..MaxHour : FreeSlots(min_duration)

SpecScheduler == InitScheduler /\ [][NextScheduler]_vars

\* ---- library_cli.cpp ----

\* the ids a user passes to --borrow, --return and --remove
BookIds == 0..(MaxBooks + 1)

\* the first run of the program: no data file
InitLibrary ==
    /\ NoCache
    /\ NoCatch2
    /\ NoElevator
    /\ NoScheduler
    /\ NoLibrary

\* the loop that looks for b["id"] == book_id: the position of the first
\* such book, 0 when there is none
find_book(data, book_id) ==
    IF \E i \in 1..Len(data) : data[i][1] = book_id
    THEN CHOOSE i \in 1..Len(data) :
             /\ data[i][1] = book_id
             /\ \A j \in 1..(i - 1) : data[j][1] # book_id
    ELSE 0

\* int Library::add_book(title, author, isbn): id = data["books"].size() + 1
AddBook ==
    /\ Len(books) < MaxBooks
    /\ books' = Append(books, <<Len(books) + 1, TRUE>>)
    /\ UNCHANGED <<borrowed, catch2, elevator, scheduler, cachevars>>

\* void Library::borrow_book(int book_id, const std::string& borrower)
BorrowBook(book_id) ==
    /\ LET i == find_book(books, book_id) IN
        IF i = 0 \/ ~books[i][2]
        THEN UNCHANGED <<books, borrowed>>
        ELSE /\ books' = [books EXCEPT ![i] = <<book_id, FALSE>>]
             /\ borrowed' = borrowed \cup {book_id}
    /\ UNCHANGED <<catch2, elevator, scheduler, cachevars>>

\* void Library::return_book(int book_id)
ReturnBook(book_id) ==
    /\ LET i == find_book(books, book_id) IN
        IF i = 0 \/ books[i][2]
        THEN UNCHANGED <<books, borrowed>>
        ELSE /\ books' = [books EXCEPT ![i] = <<book_id, TRUE>>]
             /\ borrowed' = borrowed \ {book_id}
    /\ UNCHANGED <<catch2, elevator, scheduler, cachevars>>

\* void Library::remove_book(int book_id)
RemoveBook(book_id) ==
    /\ LET i == find_book(books, book_id) IN
        IF i = 0 \/ ~books[i][2]
        THEN UNCHANGED books
        ELSE books' = SubSeq(books, 1, i - 1) \o
                          SubSeq(books, i + 1, Len(books))
    /\ UNCHANGED <<borrowed, catch2, elevator, scheduler, cachevars>>

\* one run of the program after another on the same data file
NextLibrary ==
    \/ AddBook
    \/ \E book_id \in BookIds : BorrowBook(book_id)
    \/ \E book_id \in BookIds : ReturnBook(book_id)
    \/ \E book_id \in BookIds : RemoveBook(book_id)

SpecLibrary == InitLibrary /\ [][NextLibrary]_vars

\* ----------------------------------------------------------- the claims
\* get_cache_size(): lru_cache.size() / access_order.size()
get_cache_size == IF variant = "plain" THEN Len(items) ELSE Len(access_order)

\* the keys of the recency index
IndexKeys == IF variant = "plain" THEN cache ELSE url_to_iterator

\* no call of the caller is under way: every call so far has completed
Completed(t) == pc[t] \in {"idle", "ret"}

NumFiles == Cardinality(DOMAIN files)

\* C1: plain variant, one caller: after every completed get, fetch or clear
\* the size of the LRUCache index is at most max_size (max_size >= 1).
C1_PlainIndexWithinCapacity ==
    variant = "plain" /\ Completed(Main) => get_cache_size <= max_size

\* a miss has just completed on a full index, and a file is left whose key
\* the index no longer holds
C1_Witness ==
    /\ variant = "plain"
    /\ pc[Main] = "ret" /\ op[Main] \in {"get", "fetch"}
    /\ remote[Main] /\ result[Main] = "path"
    /\ get_cache_size = max_size
    /\ \E u \in Urls : is_cached(u) /\ u \notin cache

\* C2: functools variant, one caller: after every completed get, fetch or
\* clear the length of access_order is at most max_size.
C2_ScanIndexWithinCapacity ==
    variant = "functools" /\ Completed(Main) => get_cache_size <= max_size

\* C3: both variants, from an empty directory: after every completed get or
\* fetch the directory holds at most max_size cached files.
C3_FilesWithinCapacity ==
    Completed(Main) => NumFiles <= max_size

\* the log is max_size + 1 misses of distinct identifiers and nothing else
DistinctMisses ==
    /\ pc[Main] = "idle"
    /\ Len(log) = max_size + 1
    /\ \A i \in 1..Len(log) : log[i][1] = "miss"
    /\ \A i, j \in 1..Len(log) : i # j => log[i][2] # log[j][2]

\* C4: capacity N, empty cache, N+1 successful fetches of distinct
\* identifiers and no hit: the first is no longer cached, the others are.
C4_FirstFetchedIsEvicted ==
    DistinctMisses =>
        /\ ~is_cached(log[1][2])
        /\ \A i \in 2..Len(log) : is_cached(log[i][2])

\* C5: capacity 3, misses of A, B, C, a hit get(A), a miss of D: the entry
\* removed (index entry and file) is B, and A is still cached.
C5_LruVictimIsB ==
    /\ max_size = 3
    /\ pc[Main] = "idle"
    /\ log = <<<<"miss", U1>>, <<"miss", U2>>, <<"miss", U3>>,
               <<"hit", U1>>, <<"miss", U4>>>>
    => /\ ~is_cached(U2) /\ U2 \notin IndexKeys
       /\ is_cached(U1)

\* C6: after a get(id) that returned a path the file is cached, and a get
\* or an unforced fetch that starts with the file cached makes no remote
\* transfer.
C6_GetThenCached ==
    /\ pc[Main] = "ret" /\ op[Main] = "get" /\ result[Main] = "path"
       => is_cached(url[Main])
    /\ /\ op[Main] \in {"get", "fetch"} /\ ~force_refresh[Main]
       /\ cachedAtCall[Main]
       => ~remote[Main]

\* C7: fetch(id, true) always runs the remote transfer, also when the file
\* was cached at the call.
C7_ForceAlwaysFetches ==
    pc[Main] = "ret" /\ op[Main] = "fetch" /\ force_refresh[Main]
        => remote[Main]

\* a forced fetch of a cached identifier has completed
C7_Witness ==
    /\ pc[Main] = "ret" /\ op[Main] = "fetch" /\ force_refresh[Main]
    /\ cachedAtCall[Main] /\ url[Main] \in IndexKeys

\* C8: after clear() the index is empty and the directory holds no file, so
\* no identifier is cached, and a get that starts with no file for its
\* identifier is a miss that runs the remote transfer.
C8_ClearEmptiesBoth ==
    /\ pc[Main] = "ret" /\ op[Main] = "clear"
       => /\ get_cache_size = 0
          /\ NumFiles = 0
          /\ \A u \in Urls : ~is_cached(u)
    /\ pc[Main] = "ret" /\ op[Main] = "get" /\ ~cachedAtCall[Main]
       => remote[Main]

\* clear() has completed and its loop removed files
C8_Witness ==
    /\ pc[Main] = "ret" /\ op[Main] = "clear"
    /\ removed[Main] # {}
    /\ get_cache_size = 0

\* C9: two callers inside get(id) for the same identifier, both having
\* found it uncached: the remote transfer has run for at most one of them.
C9_SingleFlight ==
    \A t1, t2 \in Threads :
        /\ t1 # t2
        /\ op[t1] = "get" /\ op[t2] = "get" /\ url[t1] = url[t2]
        /\ ~cachedAtCall[t1] /\ ~cachedAtCall[t2]
        => ~(remote[t1] /\ remote[t2])

\* every write so far has succeeded: the indexed keys and the keys being put
\* have their files
AllWritten ==
    /\ \A u \in IndexKeys : is_cached(u)
    /\ \A t \in Threads :
        pc[t] \in {"put", "put_erase", "put_evict", "put_push"}
            => is_cached(url[t])

\* C10: several callers missing on a full cache: no caller removes an entry
\* that the capacity does not force out at that moment (a file when the
\* directory holds at most max_size files, the back of the index when the
\* index holds fewer than max_size keys).
C10_NoOverEviction ==
    [][\A t \in Threads :
        /\ EvictRemove(t) /\ files' # files => NumFiles > max_size
        /\ PutEvict(t) /\ AllWritten => Len(items) >= max_size]_vars

\* C11: the write of a fetched payload is atomic for observers: a get(id)
\* of one caller that finds the key's file present (fs::exists, the test
\* that is_cached makes too) while another caller is running finds a file
\* that holds the fetched bytes in full, never a part of them or none.
C11_WriteIsAtomic ==
    [][\A t \in Threads :
        Get(t) /\ pc'[t] = "touch" => get_cache_path(url'[t]) \in whole]_vars

\* a step of an unforced get or fetch that is not a hit, up to and including
\* curl_easy_perform
MissStep(t) ==
    /\ LookupStep(t)
    /\ pc[t] \in {"idle", "fetch", "evict", "remove", "setopt", "perform"}
    /\ pc'[t] # "touch"
    /\ ~force_refresh'[t]

\* C12: an unforced get or fetch whose remote transfer fails (transport
\* error, timeout, status other than 200) returns the empty result; up to
\* that return no step of the call changes the recency index, the key has
\* no file, and the directory changes at most by losing the file of another
\* key (the eviction made before the transfer).
C12_FailedFetchChangesNothing ==
    [][\A t \in Threads :
        /\ MissStep(t) =>
            /\ indexvars' = indexvars
            /\ get_cache_path(url'[t]) \notin DOMAIN files'
            /\ \A p \in DOMAIN files' :
                p \in DOMAIN files /\ files'[p] = files[p]
        /\ Perform(t) /\ (res'[t] # "CURLE_OK" \/ response_code'[t] # 200) =>
            pc'[t] = "ret" /\ result'[t] = "nullopt"]_vars

\* an unforced call has failed after the scan evicted another key's file,
\* and the index still holds keys
C12_Witness ==
    /\ pc[Main] = "ret" /\ op[Main] \in {"get", "fetch"}
    /\ ~force_refresh[Main]
    /\ remote[Main] /\ result[Main] = "nullopt"
    /\ victim[Main] # {} /\ ~(victim[Main] \subseteq DOMAIN files)
    /\ IndexKeys # {}
    /\ ~is_cached(url[Main]) /\ url[Main] \notin IndexKeys

\* C13: fetch(id, true) on a cached identifier whose remote transfer fails
\* leaves the identifier uncached: its file was deleted and its key was
\* removed from the index before the transfer, so afterwards is_cached(id)
\* is false and the key is not in the index.
C13_FailedForceLeavesUncached ==
    /\ pc[Main] = "ret" /\ op[Main] = "fetch" /\ force_refresh[Main]
    /\ cachedAtCall[Main] /\ result[Main] = "nullopt"
    => ~is_cached(url[Main]) /\ url[Main] \notin IndexKeys

\* C14: when the write of the fetched bytes fails (the stream could not be
\* opened), the call does not leave the key in the recency index.
C14_NoIndexAfterFailedWrite ==
    /\ pc[Main] = "ret"
    /\ log # <<>>
    /\ log[Len(log)] = <<"unwritten", url[Main]>>
    => url[Main] \notin IndexKeys

\* C15: one caller, no write failure: after every completed call every
\* identifier in the recency index has its file in the directory.
C15_IndexedKeysHaveFiles ==
    /\ Completed(Main)
    /\ \A i \in 1..Len(log) : log[i][1] # "unwritten"
    => \A u \in IndexKeys : is_cached(u)

\* C16: constructing an ImageCache over a directory leaves the recency
\* index holding exactly the keys of the files in it, so that
\* get_cache_size() is the number of files.
C16_IndexRebuiltOnStartup ==
    [][Construct =>
        /\ IndexKeys' = {u \in Urls : is_cached(u)'}
        /\ get_cache_size' = NumFiles']_vars

\* C17: clear() run by one caller while the other is inside a get or a
\* fetch, for every interleaving of their steps: once both have returned
\* (no write having failed, and the capacity forcing no eviction) no
\* identifier is in the recency index without its file in the directory.
C17_ClearSafeWithGet ==
    /\ pc = Idle
    /\ \E i \in 1..Len(log) : log[i][1] = "clear"
    /\ \A i \in 1..Len(log) : log[i][1] # "unwritten"
    /\ max_size >= Cardinality(ids)
    => \A u \in IndexKeys : is_cached(u)

\* main()'s loop has stored all of test_urls, in order, each by a miss
FourStored ==
    log = [i \in 1..Len(test_urls) |-> <<"miss", test_urls[i]>>]

C19_KeysAreStable ==
    /\ \A p \in DOMAIN files : \E u \in ids : p = get_cache_path(u)
    /\ \A t \in Threads :
        op[t] \in {"get", "fetch"} /\ pc[t] = "touch" /\ ~remote[t]
            => is_cached(url[t])

\* a get is a hit on a file that an earlier call stored at an earlier time,
\* a restart and other files lying in between
C19_Witness ==
    /\ pc[Main] = "ret" /\ op[Main] = "get"
    /\ cachedAtCall[Main] /\ ~remote[Main] /\ result[Main] = "path"
    /\ files[get_cache_path(url[Main])] < now
    /\ url[Main] \notin IndexKeys
    /\ NumFiles > 1

\* C20: find_max returns 0 for the empty vector, and for a non-empty vector
\* a member of the vector that is >= every element.
C20_FindMaxIsGreatest ==
    returned # <<>> =>
        IF vec = <<>> THEN returned[1] = 0
        ELSE /\ \E i \in 1..Len(vec) : vec[i] = returned[1]
             /\ \A i \in 1..Len(vec) : vec[i] <= returned[1]

\* find_max has returned for a vector of negative ints whose greatest
\* element is not the first
C20_Witness ==
    /\ returned # <<>>
    /\ Len(vec) = MaxLen
    /\ \A i \in 1..Len(vec) : vec[i] < 0
    /\ vec[1] < vec[Len(vec)]
    /\ returned[1] = vec[Len(vec)]

\* C21: reverse_string returns a string of the same length n whose i-th
\* character is the (n+1-i)-th of the input (both counted from 1), so the
\* empty string and one-character strings come back unchanged.
C21_ReverseStringReverses ==
    returned # <<>> =>
        /\ Len(returned[1]) = Len(str)
        /\ \A i \in 1..Len(str) : returned[1][i] = str[Len(str) + 1 - i]
        /\ Len(str) <= 1 => returned[1] = str

\* reverse_string has returned for a string of MaxLen characters that is
\* not a palindrome
C21_Witness ==
    /\ returned # <<>>
    /\ Len(str) = MaxLen
    /\ str[1] # str[Len(str)]
    /\ returned[1] # str
    /\ returned[1][1] = str[Len(str)]

\* C22: eviction is pre-emptive: with capacity 1, at every step of every
\* get or fetch neither the recency index nor the cache directory holds
\* two entries.
C22_NeverTwoEntries ==
    max_size = 1 => get_cache_size <= 1 /\ NumFiles <= 1

\* C23: is_cached(id) returns true exactly when the key's file is in the
\* cache directory, whatever the recency index holds, and it changes
\* neither the index nor the directory.
C23_IsCachedIsPure ==
    [][\A t \in Threads :
        IsCached(t) =>
            /\ result'[t] \in {"true", "false"}
            /\ result'[t] = "true" <=>
                   get_cache_path(url'[t]) \in DOMAIN files
            /\ files' = files /\ whole' = whole
            /\ indexvars' = indexvars]_vars

\* is_cached has returned true for an identifier that a full index does
\* not hold
C23_Witness ==
    /\ pc[Main] = "ret" /\ op[Main] = "is_cached"
    /\ result[Main] = "true"
    /\ url[Main] \notin IndexKeys
    /\ get_cache_size = max_size

\* C24: the touch of a hit (LRUCache::touch, touch_url in get_impl) is a
\* no-op when the key is not in the recency index: membership and size of
\* the index are unchanged; when the key is present it only moves to the
\* most-recent position.
C24_TouchOfAbsentKeyIsNoOp ==
    [][\A t \in Threads :
        Touch(t) /\ ~remote[t] =>
            /\ IndexKeys' = IndexKeys
            /\ get_cache_size' = get_cache_size
            /\ url[t] \notin IndexKeys => indexvars' = indexvars
            /\ url[t] \in IndexKeys =>
                   IF variant = "plain" THEN items'[1] = url[t]
                   ELSE access_order'[Len(access_order')] = url[t]]_vars

\* the keys of the list other than key, in their order
Others(s, key) == LET NotKey(k) == k # key IN SelectSeq(s, NotKey)

\* C25: inserting a key that the recency index already holds (LRUCache::put,
\* touch_url) makes no duplicate, evicts no other key and keeps the size:
\* the key ends at the most-recent position and the other keys keep their
\* relative order.
C25_ReinsertKeepsOthers ==
    [][\A t \in Threads :
        /\ Put(t) /\ url[t] \in cache => pc'[t] = "put_erase"
        /\ PutErase(t) =>
            /\ pc'[t] = "put_push"
            /\ items' = Others(items, url[t])
            /\ Len(items') = Len(items) - 1
            /\ cache' = cache \ {url[t]}
        /\ PutPush(t) =>
            /\ items'[1] = url[t]
            /\ Tail(items') = items
            /\ cache' = cache \cup {url[t]}
            /\ Len(items') = Cardinality(cache')
        /\ Touch(t) /\ variant = "functools" /\ url[t] \in url_to_iterator =>
            /\ Len(access_order') = Len(access_order)
            /\ access_order'[Len(access_order')] = url[t]
            /\ Others(access_order', url[t]) = Others(access_order, url[t])
            /\ Len(Others(access_order', url[t])) = Len(access_order') - 1
            /\ url_to_iterator' = url_to_iterator]_vars

\* put has found the key of a forced refresh in a full index of several
\* keys, at the least-recent position
C25_Witness ==
    /\ variant = "plain"
    /\ pc[Main] = "put_erase"
    /\ force_refresh[Main]
    /\ Len(items) = max_size /\ Len(items) > 1
    /\ items[Len(items)] = url[Main]

\* C26: for every max_size, 0 included, the eviction of LRUCache::put
\* removes exactly the key at the least-recent end of the index, and on an
\* empty index it removes nothing and reads no element: put goes on to
\* insert the key.
C26_PutEvictsLruOrNothing ==
    [][\A t \in Threads :
        PutEvict(t) =>
            /\ pc'[t] = "put_push"
            /\ IF items = <<>> THEN UNCHANGED <<items, cache>>
               ELSE /\ items' = SubSeq(items, 1, Len(items) - 1)
                    /\ cache' = cache \ {items[Len(items)]}]_vars

\* the list holds exactly the keys of the map, each once
InSync(list, map) ==
    /\ {list[i] : i \in 1..Len(list)} = map
    /\ Len(list) = Cardinality(map)

\* C27: after any sequence of operations of one caller the two structures
\* of each recency index agree: the keys of `cache` are the keys of `items`
\* and none occurs twice, and likewise url_to_iterator and access_order.
C27_IndexStructuresInSync ==
    Completed(Main) =>
        /\ InSync(items, cache)
        /\ InSync(access_order, url_to_iterator)

\* a forced fetch has untracked one of several keys and then failed
C27_Witness ==
    /\ variant = "functools"
    /\ pc[Main] = "ret" /\ op[Main] = "fetch" /\ force_refresh[Main]
    /\ cachedAtCall[Main] /\ result[Main] = "nullopt"
    /\ url[Main] \notin url_to_iterator
    /\ access_order # <<>>

\* C28: content integrity. Whenever a get or a fetch has written a file
\* under the key of an identifier, the bytes of that file are the complete
\* payload of the remote transfer of that identifier itself, no more and no
\* less, also when calls for different identifiers run at the same time on
\* the cache's one CURL handle.
C28_StoredBytesAreOwnPayload ==
    \A u \in Urls :
        get_cache_path(u) \in whole => content[get_cache_path(u)] = <<u>>

\* C29: on an Elevator with floors >= 1, after any sequence of
\* request_floor (with any integer), move and close_doors the current floor
\* is within 1..floors; and a request_floor for a floor outside 1..floors
\* returns false and changes nothing of the elevator.
C29_FloorStaysInShaft ==
    /\ [](1 <= current_floor /\ current_floor <= floors)
    /\ [][\A floor \in Requests :
            RequestFloor(floor) /\ (floor < 1 \/ floor > floors) =>
                /\ accepted' = <<FALSE>>
                /\ UNCHANGED <<floors, current_floor, state, target_floor>>]_vars

\* a request outside the shaft was refused with the car at the top floor
C29_Witness ==
    /\ floors > 1
    /\ current_floor = floors
    /\ accepted = <<FALSE>>

\* C30: whenever the elevator is MOVING_UP a target floor is set and the
\* current floor is below it; whenever it is MOVING_DOWN a target floor is
\* set and the current floor is above it.
C30_MovingTowardsTarget ==
    /\ state = "MOVING_UP" =>
           target_floor # <<>> /\ current_floor < target_floor[1]
    /\ state = "MOVING_DOWN" =>
           target_floor # <<>> /\ current_floor > target_floor[1]

\* the car has left the top floor and is still on its way down
C30_Witness ==
    /\ state = "MOVING_DOWN"
    /\ 1 < current_floor /\ current_floor < floors
    /\ accepted = <<TRUE>>

\* C31: whenever the elevator is IDLE or DOORS_OPEN no target floor is set:
\* a target exists only while the elevator is moving, after any sequence of
\* request_floor, move and close_doors.
C31_TargetOnlyWhileMoving ==
    state \in {"IDLE", "DOORS_OPEN"} => target_floor = <<>>

\* the distance of the request the loop of main() is serving
Distance ==
    IF driver[2] >= driver[3] THEN driver[2] - driver[3]
    ELSE driver[3] - driver[2]

\* C32: after request_floor(f) has returned true, calling move again and
\* again with no further request reaches DOORS_OPEN with the car at f after
\* exactly |f - current_floor| calls, never sooner and never later, so the
\* loop while (state != DOORS_OPEN) move() ends after every accepted request.
C32_LoopReachesFloor ==
    /\ [](driver[1] = "loop" =>
            /\ driver[4] <= Distance
            /\ state = "DOORS_OPEN" =>
                   driver[4] = Distance /\ current_floor = driver[2])
    /\ (driver[1] = "loop") ~>
           /\ driver[1] = "loop"
           /\ state = "DOORS_OPEN"
           /\ current_floor = driver[2]
           /\ driver[4] = Distance

\* the loop has brought the car down at least two floors to the floor asked
C32_Witness ==
    /\ driver[1] = "loop"
    /\ state = "DOORS_OPEN"
    /\ driver[4] >= 2
    /\ driver[2] < driver[3]
    /\ current_floor = driver[2]

\* C33: after any sequence of add and remove every stored interval has
\* start < end and no two stored intervals overlap; an add of an empty or
\* inverted interval, or of one that overlaps a stored interval, returns
\* false and leaves the schedule as it was.
C33_ScheduleNeverOverlaps ==
    /\ [](\A i \in 1..Len(intervals) :
            /\ intervals[i][1] < intervals[i][2]
            /\ \A j \in 1..Len(intervals) :
                   i # j => ~(/\ intervals[i][1] < intervals[j][2]
                              /\ intervals[i][2] > intervals[j][1]))
    /\ [][\A start \in Hours, end \in Hours :
            /\ Add(start, end)
            /\ \/ start >= end
               \/ \E i \in 1..Len(intervals) :
                      start < intervals[i][2] /\ end > intervals[i][1]
            => answer' = <<"add", FALSE>> /\ intervals' = intervals]_vars

\* an add was refused on a schedule of two meetings
C33_Witness ==
    /\ answer = <<"add", FALSE>>
    /\ Len(intervals) >= 2

\* C34: for every schedule reachable by add and remove and every
\* min_duration >= 1, each slot that free_slots returns lies within
\* [day_start, day_end] and overlaps no scheduled interval.
C34_FreeSlotsWithinDay ==
    [][\A min_duration \in 1..MaxHour :
        FreeSlots(min_duration) =>
            \A k \in 1..Len(free'[1]) :
                /\ day_start <= free'[1][k][1]
                /\ free'[1][k][1] < free'[1][k][2]
                /\ free'[1][k][2] <= day_end
                /\ \A i \in 1..Len(intervals) :
                       ~(/\ free'[1][k][1] < intervals[i][2]
                         /\ free'[1][k][2] > intervals[i][1])]_vars

\* C35: after any sequence of add_book, borrow_book, return_book and
\* remove_book all books in the stored data have pairwise distinct ids.
C35_BookIdsDistinct ==
    \A i \in 1..Len(books) : \A j \in 1..Len(books) :
        i # j => books[i][1] # books[j][1]

====
